---- MODULE Spec2Model ----
(***************************************************************************)
(* Model of the multi-provider analysis request pipeline of the meeting    *)
(* assistant (services/geminiService.ts: formatTranscript, getBasePrompt,  *)
(* the four analyzeWith* adapters and the analyzeTranscript dispatcher).   *)
(*                                                                         *)
(* Text is a sequence of tokens (strings).  A JSON document is one token   *)
(* whose parse is given by JsonDocs; a markdown fence is the token Fence,  *)
(* its language tag the token "json", whitespace the tokens " " and "\n".  *)
(*                                                                         *)
(* Each call to analyzeTranscript is a process with its own arguments; the *)
(* requests it issues, the errors it logs, the response it is resumed with *)
(* and the outcome of its promise are recorded per call.                   *)
(*                                                                         *)
(* The application (App.tsx, AnalysisPanel, SettingsPanel) is modelled on  *)
(* top of the service: its React state and refs are variables, each        *)
(* handler, timer and callback an action.  A handler runs together with    *)
(* the render that follows it; the effects of a render and the             *)
(* continuations of settled promises run before the next event.            *)
(*                                                                         *)
(* Specifications: Spec (the service alone, any caller), AppSpec (one page *)
(* load: demo, recording, review), SettingsSpec (the settings panel and    *)
(* the operations around it), FormatSpec (formatTranscript alone),         *)
(* ReviewSpec (AppSpec and handleReview called without a transcript),      *)
(* RecordingSpec (recording with turns of several fragments), CaptureSpec  *)
(* (AudioInput: the media it acquires around a recording).                 *)
(***************************************************************************)
EXTENDS Integers, Sequences, FiniteSets, TLC

\* ------------------------------------------------------------------ bounds
\* Number of transcript entries a call may be given (prefixes of Entries).
MaxEntries == 1

\* The calls to analyzeTranscript that may be in progress at the same time.
Calls == {1, 2}

\* ------------------------------------------------------------------ types.ts
ModelProvider == {"gemini", "openai", "ollama", "lmstudio"}

\* A provider value outside the ModelProvider union (an untyped caller).
Providers == ModelProvider \cup {"carrier-pigeon"}

Entries ==
  << [timestamp |-> "00:02.150", speaker |-> "Speaker 1", text |-> "Let's discuss scalability."],
     [timestamp |-> "00:05.300", speaker |-> "Speaker 2", text |-> "review now"] >>

Transcripts == { SubSeq(Entries, 1, n) : n \in 0..MaxEntries }

Checklists == {"", "- Scalability"}

\* LlmSettings values: every field either blank or set.  The fields the selected
\* provider does not read are kept set, so that every other endpoint is usable.
AllSettings ==
  [ provider     : Providers,
    openAiApiKey : {"", "sk-test"},
    ollamaUrl    : {"", "http://localhost:11434"},
    ollamaModel  : {"", "llama3"},
    lmStudioUrl  : {"", "http://localhost:1234"} ]

Settings ==
  { s \in AllSettings :
      /\ s.provider # "openai"   => s.openAiApiKey # ""
      /\ s.provider # "ollama"   => (s.ollamaUrl # "" /\ s.ollamaModel # "")
      /\ s.provider # "lmstudio" => s.lmStudioUrl # "" }

\* ------------------------------------------------------------------ JSON values
\* A JSON value of a result field: a string, an array, or absent.
JStr(s) == [t |-> "string", s |-> s, a |-> <<>>]
JArr(a) == [t |-> "array", s |-> "", a |-> a]
JAbsent == [t |-> "absent", s |-> "", a |-> <<>>]

\* What JSON.parse yields for a document: a JSON object with (some of) the
\* fields of AnalysisResult, or the JSON value null.
JObject(summary, actionItems, missingPoints) ==
  [top |-> "object", summary |-> summary, actionItems |-> actionItems,
   missingPoints |-> missingPoints]
JNull == [top |-> "null", summary |-> JAbsent, actionItems |-> JAbsent,
          missingPoints |-> JAbsent]
NoValue == [top |-> "none", summary |-> JAbsent, actionItems |-> JAbsent,
            missingPoints |-> JAbsent]

\* The JSON documents the backends answer with, and their parse.
JsonDocs ==
  [ d \in { "{summary:Discussed scalability,actionItems:[],missingPoints:[]}",
            "{summary:Deploy plan,actionItems:[a1,a2],missingPoints:[m1]}",
            "{summary:ok}",
            "{summary:ok,actionItems:none,missingPoints:[]}",
            "null" } |->
    CASE d = "{summary:Discussed scalability,actionItems:[],missingPoints:[]}" ->
           JObject(JStr("Discussed scalability"), JArr(<<>>), JArr(<<>>))
      [] d = "{summary:Deploy plan,actionItems:[a1,a2],missingPoints:[m1]}" ->
           JObject(JStr("Deploy plan"), JArr(<<"a1", "a2">>), JArr(<<"m1">>))
      [] d = "{summary:ok}" ->
           JObject(JStr("ok"), JAbsent, JAbsent)
      [] d = "{summary:ok,actionItems:none,missingPoints:[]}" ->
           JObject(JStr("ok"), JStr("none"), JArr(<<>>))
      [] d = "null" -> JNull ]

\* Text that is not JSON at all.
Prose == "Sure! Here is the analysis."

Whitespace == {" ", "\n"}

\* The markdown code-fence marker, three backticks, as one token.
Fence == "<fence>"

\* ------------------------------------------------------------------ errors
Error(name, message) == [name |-> name, message |-> message]
NoError == Error("", <<>>)

\* The outcome of an evaluation: a value returned or an error thrown.
Return(v) == [threw |-> FALSE, value |-> v, error |-> NoError]
Throw(e)  == [threw |-> TRUE, value |-> NoValue, error |-> e]
Pending   == [threw |-> FALSE, value |-> NoValue, error |-> NoError]

\* ------------------------------------------------------------------ text
RECURSIVE TrimStart(_)
\* String.prototype.trimStart on a token sequence.
TrimStart(text) ==
  IF Len(text) > 0 /\ Head(text) \in Whitespace THEN TrimStart(Tail(text)) ELSE text

RECURSIVE TrimEnd(_)
\* String.prototype.trimEnd on a token sequence.
TrimEnd(text) ==
  IF Len(text) > 0 /\ text[Len(text)] \in Whitespace
  THEN TrimEnd(SubSeq(text, 1, Len(text) - 1))
  ELSE text

\* String.prototype.trim.
Trim(text) == TrimEnd(TrimStart(text))

\* JSON.parse: JSON text is one document with optional whitespace around it;
\* anything else is a SyntaxError.
JSONparse(text) ==
  LET t == Trim(text)
  IN IF Len(t) = 1 /\ t[1] \in DOMAIN JsonDocs
     THEN Return(JsonDocs[t[1]])
     ELSE Throw(Error("SyntaxError", <<"Unexpected token in JSON">>))

\* jsonText.replace(regex, '') with the global regex of two alternatives: the
\* first matches only at the start of the text (a fence, the tag json and the
\* whitespace after it); the second matches a fence that only whitespace
\* separates from the end of the text.
ReplaceFences(jsonText) ==
  LET opened == Len(jsonText) >= 2 /\ jsonText[1] = Fence /\ jsonText[2] = "json"
      rest   == IF opened THEN TrimStart(SubSeq(jsonText, 3, Len(jsonText))) ELSE jsonText
      body   == TrimEnd(rest)
  IN IF Len(body) > 0 /\ body[Len(body)] = Fence
     THEN SubSeq(body, 1, Len(body) - 1)
     ELSE rest

\* Variant of cleanJsonText: the fence markers are left in place.
cleanJsonText_TrimOnly(jsonText) == Trim(jsonText)

\* analyzeWithLmStudio: cleanJsonText.
cleanJsonText(jsonText) == Trim(ReplaceFences(jsonText))

RECURSIVE Join(_, _)
\* Array.prototype.join on an array of lines (each a token sequence).
Join(lines, sep) ==
  IF Len(lines) = 0 THEN <<>>
  ELSE IF Len(lines) = 1 THEN lines[1]
  ELSE lines[1] \o <<sep>> \o Join(Tail(lines), sep)

\* `[${entry.timestamp}] ${entry.speaker}: ${entry.text}`
EntryLine(entry) == <<"[", entry.timestamp, "] ", entry.speaker, ": ", entry.text>>

\* Variant of formatTranscript: entries without text are left out.
formatTranscript_SkipsBlank(transcript) ==
  LET kept == SelectSeq(transcript, LAMBDA entry : entry.text # "")
  IN Join([i \in 1..Len(kept) |-> EntryLine(kept[i])], "\n")

formatTranscript(transcript) ==
  Join([i \in 1..Len(transcript) |-> EntryLine(transcript[i])], "\n")

getBasePrompt(formattedTranscript, checklist) ==
  <<"You are an expert AI meeting assistant ... **Meeting Transcript:**">>
    \o formattedTranscript
    \o <<"**Technical Review Checklist:**", checklist,
         "Your task is ... Do not include any markdown formatting like (fence)json.">>

getJsonSchemaPrompt ==
  <<"The JSON schema for your response is as follows:", "JSON.stringify(analysisSchema)">>

systemPrompt ==
  <<"You are an expert AI meeting assistant. Your response must be a single valid JSON object, without any markdown formatting. The required JSON schema is: ",
    "JSON.stringify(analysisSchema)">>

\* ------------------------------------------------------------------ wire
\* A request handed to fetch (method POST) or to the Gemini SDK (method SDK).
\* Fields a provider's request does not carry are the empty string.
RequestBody(model, messages, format, stream, response_format, temperature) ==
  [model |-> model, messages |-> messages, format |-> format, stream |-> stream,
   response_format |-> response_format, temperature |-> temperature]

Request(url, method, authorization, body) ==
  [url |-> url, method |-> method, authorization |-> authorization, body |-> body]

NoRequest == Request(<<>>, "", <<>>, RequestBody("", <<>>, "", "", "", ""))

Message(role, content) == [role |-> role, content |-> content]

\* The text a backend puts in its content field: a document or prose, bare,
\* wrapped in a json-tagged fence, wrapped in an untagged fence, or padded
\* with whitespace.
Documents == DOMAIN JsonDocs \cup {Prose}

\* The documents that encode a complete AnalysisResult.
ResultDocs ==
  { "{summary:Discussed scalability,actionItems:[],missingPoints:[]}",
    "{summary:Deploy plan,actionItems:[a1,a2],missingPoints:[m1]}" }

Bare(d)        == <<d>>
FencedJson(d)  == <<Fence, "json", "\n", d, "\n", Fence>>
FencedPlain(d) == <<Fence, "\n", d, "\n", Fence>>
Padded(d)      == <<"\n", d, "\n">>
\* A json fence with whitespace before its opening marker, and one with
\* whitespace after its closing marker.
FencedLeading(d)  == <<" ", Fence, "json", "\n", d, "\n", Fence>>
FencedTrailing(d) == <<Fence, "json", "\n", d, "\n", Fence, "\n">>

\* The document of the end-to-end scenario, the one tried in every wrapping.
ScenarioDoc == "{summary:Discussed scalability,actionItems:[],missingPoints:[]}"

Contents ==
  { Bare(d) : d \in Documents }
    \cup { FencedJson(d) : d \in ResultDocs }
    \cup {FencedPlain(ScenarioDoc), Padded(ScenarioDoc)}
    \cup {FencedLeading(ScenarioDoc), FencedTrailing(ScenarioDoc)}

\* The body of an HTTP response, by the shape of the JSON it holds:
\*   notjson  text that is not JSON            null   the JSON value null
\*   empty    {}                               error  {"error":{"message":m}}
\*   chat     {"choices":[{"message":{"content":c}}]}
\*   ollama   {"message":{"content":c}}
\* and the text of an SDK generation (shape text).
Body(shape, message, content) == [shape |-> shape, message |-> message, content |-> content]

ErrorMessages == {"", "Incorrect API key provided", "Rate limit reached"}

\* Bodies without a content field.
PlainBodies ==
  {Body("notjson", "", <<>>), Body("null", "", <<>>), Body("empty", "", <<>>)}
    \cup { Body("error", m, <<>>) : m \in ErrorMessages }

\* The bodies an endpoint answers with: any content in the shape of its own
\* API, and the scenario document in the shape of the other API (a different
\* server listening at the configured URL).
HttpBodies(shape) ==
  PlainBodies
    \cup { Body(shape, "", c) : c \in Contents }
    \cup { Body(other, "", Bare(ScenarioDoc)) : other \in {"chat", "ollama"} \ {shape} }

\* The bodies sent with a non-success status.
ErrorBodies ==
  PlainBodies \cup { Body(shape, "", Bare(ScenarioDoc)) : shape \in {"chat", "ollama"} }

\* response.text() of an HTTP response: the raw text of the body.
BodyText(body) ==
  CASE body.shape = "notjson" -> <<"<html>Bad Gateway</html>">>
    [] body.shape = "null"    -> <<"null">>
    [] body.shape = "empty"   -> <<"{}">>
    [] body.shape = "error"   -> <<"{error:{message:", body.message, "}}">>
    [] body.shape = "chat"    -> <<"{choices:[{message:{content:">> \o body.content \o <<"}}]}">>
    [] body.shape = "ollama"  -> <<"{message:{content:">> \o body.content \o <<"}}">>
    [] OTHER                  -> body.content

\* What comes back for a request: an HTTP response (ok or not) or a rejected
\* fetch; an SDK generation, one without text, or a rejected SDK call.
Response(kind, ok, body) == [kind |-> kind, ok |-> ok, body |-> body]

NoResponse == Response("none", FALSE, Body("none", "", <<>>))

HttpResponses(shape) ==
  { Response("http", TRUE, b) : b \in HttpBodies(shape) }
    \cup { Response("http", FALSE, b) : b \in ErrorBodies }
    \cup { Response("network_error", FALSE, Body("none", "", <<>>)) }

SdkResponses ==
  { Response("sdk", TRUE, Body("text", "", c)) : c \in Contents }
    \cup { Response("sdk_notext", TRUE, Body("none", "", <<>>)),
           Response("sdk_error", FALSE, Body("none", "", <<>>)) }

\* The responses a request may get, by the API it addresses.
ResponsesTo(request) ==
  IF request.method = "SDK" THEN SdkResponses
  ELSE IF request.url[Len(request.url)] = "/api/chat" THEN HttpResponses("ollama")
  ELSE HttpResponses("chat")

AllResponses == SdkResponses \cup HttpResponses("ollama") \cup HttpResponses("chat")

\* await fetch(...) rejecting.
FetchFailed == Throw(Error("TypeError", <<"Failed to fetch">>))

\* await response.json(): the parsed body, or a SyntaxError.
ResponseJsonThrows(response) == response.body.shape = "notjson"

JsonSyntaxError == Throw(Error("SyntaxError", <<"Unexpected token < in JSON at position 0">>))

\* Reading a property of null or undefined.
PropertyTypeError == Throw(Error("TypeError", <<"Cannot read properties of undefined">>))

\* errorData.error?.message || 'Unknown error'
ErrorDataMessage(body) ==
  IF body.shape = "error" /\ body.message # "" THEN body.message ELSE "Unknown error"

\* ------------------------------------------------------------------ adapters
\* An adapter runs in two steps: up to its first await (the settings check and
\* the request it issues), and from the response on.
Sent(request) == [threw |-> FALSE, error |-> NoError, request |-> request]
NotSent(e)    == [threw |-> TRUE, error |-> e, request |-> NoRequest]

geminiModel == "gemini-2.5-flash"

analyzeWithGeminiSend(transcript, checklist) ==
  LET prompt == getBasePrompt(formatTranscript(transcript), checklist)
  IN Sent(Request(<<"ai.models.generateContent">>, "SDK", <<"API_KEY">>,
                  RequestBody(geminiModel, <<Message("contents", prompt)>>,
                              "", "", "application/json", "")))

analyzeWithGeminiReceive(response) ==
  CASE response.kind = "sdk_error"  -> Throw(Error("ApiError", <<"generateContent failed">>))
    [] response.kind = "sdk_notext" -> PropertyTypeError
    [] OTHER -> JSONparse(Trim(response.body.content))

OpenAIKeyMissing(settings) == settings.openAiApiKey = ""

analyzeWithOpenAISend(transcript, checklist, settings) ==
  IF OpenAIKeyMissing(settings)
  THEN NotSent(Error("Error", <<"OpenAI API Key is not configured.">>))
  ELSE LET userPrompt == getBasePrompt(formatTranscript(transcript), checklist)
       IN Sent(Request(<<"https://api.openai.com/v1/chat/completions">>, "POST",
                       <<"Bearer ", settings.openAiApiKey>>,
                       RequestBody("gpt-4o",
                                   <<Message("system", systemPrompt),
                                     Message("user", userPrompt)>>,
                                   "", "", "json_object", "")))

analyzeWithOpenAIReceive(response) ==
  IF response.kind = "network_error" THEN FetchFailed
  ELSE IF ~response.ok
  THEN IF ResponseJsonThrows(response) THEN JsonSyntaxError
       ELSE IF response.body.shape = "null" THEN PropertyTypeError
       ELSE Throw(Error("Error", <<"OpenAI API error: ", ErrorDataMessage(response.body)>>))
  ELSE IF ResponseJsonThrows(response) THEN JsonSyntaxError
       ELSE IF response.body.shape # "chat" THEN PropertyTypeError
       ELSE JSONparse(response.body.content)

\* Variant of OllamaNotConfigured: the model name is not checked.
OllamaNotConfigured_UrlOnly(settings) == settings.ollamaUrl = ""

OllamaNotConfigured(settings) == settings.ollamaUrl = "" \/ settings.ollamaModel = ""

analyzeWithOllamaSend(transcript, checklist, settings) ==
  IF OllamaNotConfigured(settings)
  THEN NotSent(Error("Error", <<"Ollama URL or model name is not configured.">>))
  ELSE LET userPrompt == getBasePrompt(formatTranscript(transcript), checklist)
                           \o <<"\n\n">> \o getJsonSchemaPrompt
       IN Sent(Request(<<settings.ollamaUrl, "/api/chat">>, "POST", <<>>,
                       RequestBody(settings.ollamaModel,
                                   <<Message("user", userPrompt)>>,
                                   "json", "false", "", "")))

\* Variant of analyzeWithOllamaReceive: response.ok is not looked at.
analyzeWithOllamaReceive_NoStatusCheck(response) ==
  IF response.kind = "network_error" THEN FetchFailed
  ELSE IF ResponseJsonThrows(response) THEN JsonSyntaxError
  ELSE IF response.body.shape # "ollama" THEN PropertyTypeError
  ELSE JSONparse(response.body.content)

\* Variant of analyzeWithOllamaReceive: the parsed object's lists are emptied.
analyzeWithOllamaReceive_DropsItems(response) ==
  IF response.kind = "network_error" THEN FetchFailed
  ELSE IF ~response.ok
  THEN Throw(Error("Error", <<"Ollama API error: ">> \o BodyText(response.body)))
  ELSE IF ResponseJsonThrows(response) THEN JsonSyntaxError
       ELSE IF response.body.shape # "ollama" THEN PropertyTypeError
       ELSE LET parsed == JSONparse(response.body.content)
            IN IF parsed.threw \/ parsed.value.top # "object" THEN parsed
               ELSE Return([parsed.value EXCEPT !.actionItems = JArr(<<>>),
                                                !.missingPoints = JArr(<<>>)])

analyzeWithOllamaReceive(response) ==
  IF response.kind = "network_error" THEN FetchFailed
  ELSE IF ~response.ok
  THEN Throw(Error("Error", <<"Ollama API error: ">> \o BodyText(response.body)))
  ELSE IF ResponseJsonThrows(response) THEN JsonSyntaxError
       ELSE IF response.body.shape # "ollama" THEN PropertyTypeError
       ELSE JSONparse(response.body.content)

LmStudioUrlMissing(settings) == settings.lmStudioUrl = ""

analyzeWithLmStudioSend(transcript, checklist, settings) ==
  IF LmStudioUrlMissing(settings)
  THEN NotSent(Error("Error", <<"LM Studio URL is not configured.">>))
  ELSE LET userPrompt == getBasePrompt(formatTranscript(transcript), checklist)
       IN Sent(Request(<<settings.lmStudioUrl, "/v1/chat/completions">>, "POST", <<>>,
                       RequestBody("local-model",
                                   <<Message("system", systemPrompt),
                                     Message("user", userPrompt)>>,
                                   "", "", "", "0.7")))

analyzeWithLmStudioReceive(response) ==
  IF response.kind = "network_error" THEN FetchFailed
  ELSE IF ~response.ok
  THEN IF ResponseJsonThrows(response) THEN JsonSyntaxError
       ELSE IF response.body.shape = "null" THEN PropertyTypeError
       ELSE Throw(Error("Error", <<"LM Studio API error: ", ErrorDataMessage(response.body)>>))
  ELSE IF ResponseJsonThrows(response) THEN JsonSyntaxError
       ELSE IF response.body.shape # "chat" THEN PropertyTypeError
       ELSE JSONparse(cleanJsonText(response.body.content))

\* ------------------------------------------------------------------ dispatcher
\* Variant of analyzeTranscriptSend: the ollama case runs the LM Studio adapter.
analyzeTranscriptSend_Misrouted(transcript, checklist, settings) ==
  CASE settings.provider = "gemini"   -> analyzeWithGeminiSend(transcript, checklist)
    [] settings.provider = "openai"   -> analyzeWithOpenAISend(transcript, checklist, settings)
    [] settings.provider = "ollama"   -> analyzeWithLmStudioSend(transcript, checklist, settings)
    [] settings.provider = "lmstudio" -> analyzeWithLmStudioSend(transcript, checklist, settings)
    [] OTHER -> NotSent(Error("Error", <<"Unsupported model provider: ", settings.provider>>))

\* Variant of analyzeTranscriptSend: the default case runs the last adapter.
analyzeTranscriptSend_NoDefault(transcript, checklist, settings) ==
  CASE settings.provider = "gemini"   -> analyzeWithGeminiSend(transcript, checklist)
    [] settings.provider = "openai"   -> analyzeWithOpenAISend(transcript, checklist, settings)
    [] settings.provider = "ollama"   -> analyzeWithOllamaSend(transcript, checklist, settings)
    [] OTHER                          -> analyzeWithLmStudioSend(transcript, checklist, settings)

\* The switch of analyzeTranscript, up to the selected adapter's first await.
analyzeTranscriptSend(transcript, checklist, settings) ==
  CASE settings.provider = "gemini"   -> analyzeWithGeminiSend(transcript, checklist)
    [] settings.provider = "openai"   -> analyzeWithOpenAISend(transcript, checklist, settings)
    [] settings.provider = "ollama"   -> analyzeWithOllamaSend(transcript, checklist, settings)
    [] settings.provider = "lmstudio" -> analyzeWithLmStudioSend(transcript, checklist, settings)
    [] OTHER -> NotSent(Error("Error", <<"Unsupported model provider: ", settings.provider>>))

\* The selected adapter, resumed with the response to its request.
analyzeTranscriptReceive(settings, response) ==
  CASE settings.provider = "gemini"   -> analyzeWithGeminiReceive(response)
    [] settings.provider = "openai"   -> analyzeWithOpenAIReceive(response)
    [] settings.provider = "ollama"   -> analyzeWithOllamaReceive(response)
    [] OTHER                          -> analyzeWithLmStudioReceive(response)

\* Variant of analyzeTranscriptCatch: the caught error is thrown again.
analyzeTranscriptCatch_Rethrow(settings, error) == error

\* Variant of analyzeTranscriptCatch: the outer message ends with the cause.
analyzeTranscriptCatch_WithCause(settings, error) ==
  Error("Error", <<"Failed to get analysis from ", settings.provider, ": ">> \o error.message)

\* The error the catch block of analyzeTranscript throws in place of `error`.
analyzeTranscriptCatch(settings, error) ==
  Error("Error", <<"Failed to get analysis from ", settings.provider,
                   ". Please check your settings and the console for details.">>)

\* ------------------------------------------------------------------ state
VARIABLES
  pc,       \* pc[c]: "idle", "awaiting" (suspended at its await) or "settled"
  args,     \* args[c]: the transcript, checklist and settings call c was given
  network,  \* network[c]: the requests call c has issued, in order
  console,  \* console[c]: the errors call c has written with console.error
  response, \* response[c]: what call c's await resolved or rejected with
  outcome   \* outcome[c]: what call c's promise settled with

serviceVars == <<pc, args, network, console, response, outcome>>

NoArgs ==
  [transcript |-> <<>>, checklist |-> "",
   settings |-> [provider |-> "", openAiApiKey |-> "", ollamaUrl |-> "",
                 ollamaModel |-> "", lmStudioUrl |-> ""]]

ServiceInit ==
  /\ pc = [c \in Calls |-> "idle"]
  /\ args = [c \in Calls |-> NoArgs]
  /\ network = [c \in Calls |-> <<>>]
  /\ console = [c \in Calls |-> <<>>]
  /\ response = [c \in Calls |-> NoResponse]
  /\ outcome = [c \in Calls |-> Pending]

\* analyzeTranscript(transcript, checklist, settings), up to its first await:
\* either the adapter issues its request and the call is suspended, or an
\* error is thrown before any request, logged and replaced by the catch block.
Invoke(c, transcript, checklist, settings) ==
  /\ pc[c] = "idle"
  /\ args' = [args EXCEPT ![c] = [transcript |-> transcript, checklist |-> checklist,
                                  settings |-> settings]]
  /\ LET sent == analyzeTranscriptSend(transcript, checklist, settings)
     IN IF sent.threw
        THEN /\ console' = [console EXCEPT ![c] = Append(@, sent.error)]
             /\ outcome' = [outcome EXCEPT ![c] = Throw(analyzeTranscriptCatch(settings, sent.error))]
             /\ pc' = [pc EXCEPT ![c] = "settled"]
             /\ UNCHANGED network
        ELSE /\ network' = [network EXCEPT ![c] = Append(@, sent.request)]
             /\ pc' = [pc EXCEPT ![c] = "awaiting"]
             /\ UNCHANGED <<console, outcome>>
  /\ UNCHANGED response

\* Variant of Settle: a failed attempt is sent again.
Settle_Retry(c, resp) ==
  /\ pc[c] = "awaiting"
  /\ resp \in ResponsesTo(network[c][Len(network[c])])
  /\ response' = [response EXCEPT ![c] = resp]
  /\ LET result == analyzeTranscriptReceive(args[c].settings, resp)
     IN IF result.threw /\ Len(network[c]) < 2
        THEN /\ network' = [network EXCEPT ![c] = Append(@, network[c][Len(network[c])])]
             /\ UNCHANGED <<pc, console, outcome>>
        ELSE /\ IF result.threw
                THEN /\ console' = [console EXCEPT ![c] = Append(@, result.error)]
                     /\ outcome' = [outcome EXCEPT ![c] = Throw(analyzeTranscriptCatch(args[c].settings, result.error))]
                ELSE /\ outcome' = [outcome EXCEPT ![c] = result]
                     /\ UNCHANGED console
             /\ pc' = [pc EXCEPT ![c] = "settled"]
             /\ UNCHANGED network
  /\ UNCHANGED args

\* Variant of Settle: the settings are read from a slot all calls share, which
\* holds the settings of the highest call invoked so far.
Settle_SharedSettings(c, resp) ==
  /\ pc[c] = "awaiting"
  /\ resp \in ResponsesTo(network[c][Len(network[c])])
  /\ response' = [response EXCEPT ![c] = resp]
  /\ LET last     == CHOOSE o \in Calls : pc[o] # "idle" /\ \A q \in Calls : pc[q] # "idle" => q <= o
         settings == args[last].settings
         result   == analyzeTranscriptReceive(settings, resp)
     IN IF result.threw
        THEN /\ console' = [console EXCEPT ![c] = Append(@, result.error)]
             /\ outcome' = [outcome EXCEPT ![c] = Throw(analyzeTranscriptCatch(settings, result.error))]
        ELSE /\ outcome' = [outcome EXCEPT ![c] = result]
             /\ UNCHANGED console
  /\ pc' = [pc EXCEPT ![c] = "settled"]
  /\ UNCHANGED <<args, network>>

\* The rest of analyzeTranscript, from the response to the pending request:
\* the adapter's value is returned, or its error is logged and replaced by the
\* catch block.
Settle(c, resp) ==
  /\ pc[c] = "awaiting"
  /\ resp \in ResponsesTo(network[c][Len(network[c])])
  /\ response' = [response EXCEPT ![c] = resp]
  /\ LET result == analyzeTranscriptReceive(args[c].settings, resp)
     IN IF result.threw
        THEN /\ console' = [console EXCEPT ![c] = Append(@, result.error)]
             /\ outcome' = [outcome EXCEPT ![c] = Throw(analyzeTranscriptCatch(args[c].settings, result.error))]
        ELSE /\ outcome' = [outcome EXCEPT ![c] = result]
             /\ UNCHANGED console
  /\ pc' = [pc EXCEPT ![c] = "settled"]
  /\ UNCHANGED <<args, network>>

\* ================================================================== App.tsx
\* The application (App.tsx and its components).
VARIABLES
  API_KEY,              \* process.env.API_KEY: "" when not set
  app,                  \* "unloaded", "crashed" (module evaluation threw) or "mounted"
  localStorage,         \* the item stored under SETTINGS_STORAGE_KEY
  llmSettings,          \* state of App
  settingsEffectPending,\* llmSettings changed in the last render: its effect is due
  isSettingsOpen,       \* state of AnalysisPanel
  localSettings,        \* state of SettingsPanel (meaningful while it is open)
  transcript,           \* state of App: null, or the entries in order
  currentUtteranceRef,  \* the fragments transcribed in the current turn
  analysisResult,       \* state of App: NoValue for null
  isLoading,            \* state of App
  error,                \* state of App: <<>> for null
  isRecording,          \* state of App
  checklist,            \* state of App
  hasAutoReviewed,      \* state of App
  currentSpeaker,       \* state of App (speakerRef follows it)
  simulationTimeouts,   \* indices of the mock entries whose timer is pending
  sessions,             \* sessions[s]: state of the live session s
  sessionRef,           \* the session sessionRef.current holds, 0 for null
  autoReviews,          \* history: analyses the command effect started since the last reset
  heard,                \* history: the fragments received since the last reset, by turn
  media                 \* AudioInput: its handler's position, its tracks and audio context

settingsVars == <<localStorage, llmSettings, settingsEffectPending, isSettingsOpen, localSettings>>
reviewVars   == <<analysisResult, isLoading, error, hasAutoReviewed, autoReviews>>
recordVars   == <<transcript, currentUtteranceRef, isRecording, simulationTimeouts, sessions, sessionRef,
                 heard>>
appVars == <<API_KEY, app, settingsVars, reviewVars, recordVars, checklist, currentSpeaker, media>>

\* One application of formatTranscript to a transcript.
VARIABLE formatCall

vars == <<serviceVars, appVars, formatCall>>


\* ------------------------------------------------------------------ constants of App.tsx
\* MOCK_TRANSCRIPT, cut to two entries: only its last entry holds the command.
MOCK_TRANSCRIPT == Entries

DEFAULT_CHECKLIST == "- Scalability"

DEFAULT_SETTINGS ==
  [provider |-> "gemini", openAiApiKey |-> "", ollamaUrl |-> "http://localhost:11434",
   ollamaModel |-> "llama3", lmStudioUrl |-> "http://localhost:1234"]

SettingsFields == {"provider", "openAiApiKey", "ollamaUrl", "ollamaModel", "lmStudioUrl"}

\* ------------------------------------------------------------------ bounds of the application
\* Entries a live session may add to a transcript.
MaxTranscript == 2

\* Fragments of transcribed text one turn may hold.
MaxFragments == 1

\* Fragments one turn may hold where recording is checked apart from the
\* review button.
MaxTurnFragments == 2

LongestTurn == IF MaxFragments > MaxTurnFragments THEN MaxFragments ELSE MaxTurnFragments

\* Live sessions that may be started.
MaxSessions == 1

Sessions == 1..MaxSessions

\* ------------------------------------------------------------------ stored settings
\* The item under SETTINGS_STORAGE_KEY: absent (getItem yields null), text that
\* is not JSON, the JSON null, or a JSON object holding the fields in `has`
\* with their values in `value`.
StoredItem(kind, has, value) == [kind |-> kind, has |-> has, value |-> value]

NoItem == StoredItem("absent", {}, NoArgs.settings)

\* JSON.stringify of an LlmSettings value, as stored.
JSONstringify(settings) == StoredItem("object", SettingsFields, settings)

\* What may be in storage when the application starts.
StoredItems ==
  { NoItem,
    StoredItem("invalid", {}, NoArgs.settings),
    StoredItem("null", {}, NoArgs.settings),
    StoredItem("object", {"provider"}, [NoArgs.settings EXCEPT !.provider = "ollama"]),
    StoredItem("object", {"provider", "ollamaModel"},
               [NoArgs.settings EXCEPT !.provider = "ollama", !.ollamaModel = ""]),
    JSONstringify([DEFAULT_SETTINGS EXCEPT !.provider = "ollama"]) }

\* Variant of LoadSettings: the parsed object is returned as it is.
LoadSettings_NoMerge(item) ==
  IF item.kind \in {"absent", "invalid", "null"} THEN DEFAULT_SETTINGS ELSE item.value

\* The initializer of llmSettings: the defaults, overridden by the fields of
\* the stored object; the defaults when nothing is stored or parsing throws.
LoadSettings(item) ==
  IF item.kind = "absent" THEN DEFAULT_SETTINGS
  ELSE IF item.kind = "invalid" THEN DEFAULT_SETTINGS
  ELSE LET parsed == IF item.kind = "null" THEN {} ELSE item.has
           Field(f) == IF f \in parsed THEN item.value[f] ELSE DEFAULT_SETTINGS[f]
       IN [provider     |-> Field("provider"),
           openAiApiKey |-> Field("openAiApiKey"),
           ollamaUrl    |-> Field("ollamaUrl"),
           ollamaModel  |-> Field("ollamaModel"),
           lmStudioUrl  |-> Field("lmStudioUrl")]

\* ------------------------------------------------------------------ transcript text
\* The fragments a live session transcribes.
Fragments == {" ", "Hello", "Review now"}

\* String.prototype.toLowerCase on a fragment or a mock text.
toLowerCase(text) == IF text = "Review now" THEN "review now" ELSE text

RECURSIVE Concat(_)
\* The string a sequence of fragments makes.
Concat(fragments) ==
  IF fragments = <<>> THEN "" ELSE Head(fragments) \o Concat(Tail(fragments))

\* The utterances a turn may hold.
Utterances == UNION { [1..n -> Fragments] : n \in 0..LongestTurn }

\* entry.text.toLowerCase().includes('review now'), for the texts of the model.
includesCommand(text) ==
  \/ \E i \in 1..Len(MOCK_TRANSCRIPT) :
       text = MOCK_TRANSCRIPT[i].text /\ toLowerCase(text) = "review now"
  \/ \E u \in Utterances :
       text = Concat(u) /\ \E i \in 1..Len(u) : toLowerCase(u[i]) = "review now"

\* checklist.trim(), for the checklists of the model.
AppChecklists == {DEFAULT_CHECKLIST, " "}
trimChecklist(cl) == IF cl = " " THEN "" ELSE cl

Transcript(isNull, entries) == [isNull |-> isNull, entries |-> entries]
NullTranscript == Transcript(TRUE, <<>>)

\* Variant of AppendEntry: the new entry is put first.
AppendEntry_Prepend(prev, entry) == Transcript(FALSE, <<entry>> \o prev.entries)

\* setTranscript(prev => [...(prev ?? []), entry])
AppendEntry(prev, entry) == Transcript(FALSE, Append(prev.entries, entry))

\* The entry made of the utterance at the time it is finalized.
LiveEntry(utterance) ==
  [timestamp |-> "elapsed", speaker |-> currentSpeaker, text |-> Concat(utterance)]

\* null, undefined and the other values !analysisResult holds for.
Falsy(value) == value.top \in {"none", "null"}

\* ------------------------------------------------------------------ media of AudioInput
\* stage: where handleStartRecordingClick stands ("idle" when it is not
\* running, "mic" awaiting getUserMedia, "display" awaiting getDisplayMedia);
\* mic and display: the audio tracks of micStreamRef and displayStreamRef
\* ("none", "live", "stopped", and "ended" for a display track the user stopped
\* sharing); context: audioContextRef ("none", "running", "closed").
Media(stage, mic, display, context) ==
  [stage |-> stage, mic |-> mic, display |-> display, context |-> context]

NoMedia == Media("idle", "none", "none", "none")

\* stopRecordingTracks: every track of the two streams is stopped, the
\* context closed.
stopRecordingTracks(m) ==
  Media(m.stage,
        IF m.mic = "live" THEN "stopped" ELSE m.mic,
        IF m.display = "live" THEN "stopped" ELSE m.display,
        IF m.context = "running" THEN "closed" ELSE m.context)

\* ------------------------------------------------------------------ history of a recording
\* What the live sessions have delivered since the transcript was last reset:
\* the turns that have ended, each the fragments received during it in the
\* order of their arrival, and the fragments of the turn that is open. A turn
\* in which nothing but whitespace arrived leaves no trace when it ends.
Heard(turns, open) == [turns |-> turns, open |-> open]

NoneHeard == Heard(<<>>, <<>>)

\* A message with the fragments `text` arrives; the turn ends with it when
\* turnEnds.
Hear(h, text, turnEnds) ==
  LET turn == h.open \o text
      blank == \A i \in 1..Len(turn) : turn[i] \in Whitespace
  IN IF ~turnEnds THEN Heard(h.turns, turn)
     ELSE IF blank THEN Heard(h.turns, <<>>)
     ELSE Heard(Append(h.turns, turn), <<>>)

\* ------------------------------------------------------------------ scheduling
\* A settled call whose continuation in handleReview has not run yet.
ContinuationDue == \E c \in Calls : pc[c] = "settled"

\* The command effect (App.tsx 304-317) would start an analysis.
CommandDue ==
  /\ app = "mounted"
  /\ ~transcript.isNull /\ ~isLoading /\ Falsy(analysisResult) /\ ~hasAutoReviewed
  /\ \E i \in 1..Len(transcript.entries) : includesCommand(transcript.entries[i].text)

\* Continuations run before effects, effects before the next event.
Quiet == app = "mounted" /\ ~ContinuationDue /\ ~settingsEffectPending /\ ~CommandDue

\* The lowest call not in use.
FreeCall == CHOOSE c \in Calls : pc[c] = "idle" /\ \A q \in Calls : pc[q] = "idle" => c <= q

\* ------------------------------------------------------------------ start-up
AppNotLoaded ==
  /\ app = "unloaded"
  /\ llmSettings = NoArgs.settings
  /\ settingsEffectPending = FALSE
  /\ isSettingsOpen = FALSE
  /\ localSettings = NoArgs.settings
  /\ transcript = NullTranscript
  /\ currentUtteranceRef = <<>>
  /\ heard = NoneHeard
  /\ media = NoMedia
  /\ analysisResult = NoValue
  /\ isLoading = FALSE
  /\ error = <<>>
  /\ isRecording = FALSE
  /\ checklist = DEFAULT_CHECKLIST
  /\ hasAutoReviewed = FALSE
  /\ currentSpeaker = "Speaker 1"
  /\ simulationTimeouts = {}
  /\ sessions = [s \in Sessions |-> "unused"]
  /\ sessionRef = 0
  /\ autoReviews = 0
  /\ API_KEY = "key"
  /\ localStorage = NoItem

AppInit ==
  /\ app = "unloaded"
  /\ llmSettings = NoArgs.settings
  /\ settingsEffectPending = FALSE
  /\ isSettingsOpen = FALSE
  /\ localSettings = NoArgs.settings
  /\ transcript = NullTranscript
  /\ currentUtteranceRef = <<>>
  /\ heard = NoneHeard
  /\ media = NoMedia
  /\ analysisResult = NoValue
  /\ isLoading = FALSE
  /\ error = <<>>
  /\ isRecording = FALSE
  /\ checklist = DEFAULT_CHECKLIST
  /\ hasAutoReviewed = FALSE
  /\ currentSpeaker = "Speaker 1"
  /\ simulationTimeouts = {}
  /\ sessions = [s \in Sessions |-> "unused"]
  /\ sessionRef = 0
  /\ autoReviews = 0
  /\ API_KEY \in {"", "key"}
  /\ localStorage \in StoredItems

\* The page loads: index.tsx imports App, which imports geminiService, whose
\* evaluation throws when API_KEY is not set; otherwise App is rendered, its
\* state initialized.
LoadApp ==
  /\ app = "unloaded"
  /\ IF API_KEY = ""
     THEN /\ app' = "crashed"
          /\ UNCHANGED <<llmSettings, settingsEffectPending>>
     ELSE /\ app' = "mounted"
          /\ llmSettings' = LoadSettings(localStorage)
          /\ settingsEffectPending' = TRUE
  /\ UNCHANGED <<API_KEY, formatCall, media, localStorage, isSettingsOpen, localSettings, reviewVars,
                 recordVars, checklist, currentSpeaker, serviceVars>>

\* useEffect(..., [llmSettings]): the settings are written to storage.
PersistSettings ==
  /\ app = "mounted" /\ settingsEffectPending
  /\ localStorage' = JSONstringify(llmSettings)
  /\ settingsEffectPending' = FALSE
  /\ UNCHANGED <<API_KEY, formatCall, media, app, llmSettings, isSettingsOpen, localSettings, reviewVars,
                 recordVars, checklist, currentSpeaker, serviceVars>>

\* ------------------------------------------------------------------ settings panel
\* The settings button of AnalysisPanel: SettingsPanel mounts with a copy.
OpenSettings ==
  /\ Quiet /\ ~isSettingsOpen
  /\ isSettingsOpen' = TRUE
  /\ localSettings' = llmSettings
  /\ UNCHANGED <<API_KEY, formatCall, media, app, localStorage, llmSettings, settingsEffectPending, reviewVars,
                 recordVars, checklist, currentSpeaker, serviceVars>>

\* Variant of handleProviderChange: the choice takes effect at once.
handleProviderChange_Live(provider) ==
  /\ Quiet /\ isSettingsOpen
  /\ localSettings' = [localSettings EXCEPT !.provider = provider]
  /\ llmSettings' = [llmSettings EXCEPT !.provider = provider]
  /\ settingsEffectPending' = (llmSettings' # llmSettings)
  /\ UNCHANGED <<API_KEY, formatCall, media, app, localStorage, isSettingsOpen, reviewVars,
                 recordVars, checklist, currentSpeaker, serviceVars>>

handleProviderChange(provider) ==
  /\ Quiet /\ isSettingsOpen
  /\ localSettings' = [localSettings EXCEPT !.provider = provider]
  /\ UNCHANGED <<API_KEY, formatCall, media, app, localStorage, llmSettings, settingsEffectPending, isSettingsOpen,
                 reviewVars, recordVars, checklist, currentSpeaker, serviceVars>>

\* The inputs SettingsPanel shows for the provider selected in it.
VisibleFields(provider) ==
  CASE provider = "openai"   -> {"openAiApiKey"}
    [] provider = "ollama"   -> {"ollamaUrl", "ollamaModel"}
    [] provider = "lmstudio" -> {"lmStudioUrl"}
    [] OTHER                 -> {}

\* The providers selected in SettingsPanel, and what is typed into its inputs:
\* the model name is cleared or typed again, the other inputs are left alone.
EditProviders == {"gemini", "ollama"}
EditValues(name) == IF name = "ollamaModel" THEN {"", "llama3"} ELSE {}

handleInputChange(name, value) ==
  /\ Quiet /\ isSettingsOpen
  /\ name \in VisibleFields(localSettings.provider)
  /\ localSettings' = [localSettings EXCEPT ![name] = value]
  /\ UNCHANGED <<API_KEY, formatCall, media, app, localStorage, llmSettings, settingsEffectPending, isSettingsOpen,
                 reviewVars, recordVars, checklist, currentSpeaker, serviceVars>>

\* Save: SettingsPanel.handleSubmit, handleSaveSettings, then onClose.
SaveSettings ==
  /\ Quiet /\ isSettingsOpen
  /\ llmSettings' = localSettings
  /\ settingsEffectPending' = (localSettings # llmSettings)
  /\ isSettingsOpen' = FALSE
  /\ localSettings' = NoArgs.settings
  /\ UNCHANGED <<API_KEY, formatCall, media, app, localStorage, reviewVars,
                 recordVars, checklist, currentSpeaker, serviceVars>>

\* Cancel: onClose alone.
CancelSettings ==
  /\ Quiet /\ isSettingsOpen
  /\ isSettingsOpen' = FALSE
  /\ localSettings' = NoArgs.settings
  /\ UNCHANGED <<API_KEY, formatCall, media, app, localStorage, llmSettings, settingsEffectPending, reviewVars,
                 recordVars, checklist, currentSpeaker, serviceVars>>

\* The textarea of AnalysisPanel.
onChecklistChange(value) ==
  /\ Quiet /\ ~isSettingsOpen
  /\ value # checklist
  /\ checklist' = value
  /\ UNCHANGED <<API_KEY, formatCall, media, app, settingsVars, reviewVars, recordVars, currentSpeaker, serviceVars>>

\* ------------------------------------------------------------------ demo
\* The Run Meeting Demo button (disabled while recording): handleRunDemo with
\* startTranscriptSimulation.
handleRunDemo ==
  /\ Quiet /\ ~isSettingsOpen /\ ~isRecording
  /\ isRecording' = FALSE
  /\ analysisResult' = NoValue
  /\ error' = <<>>
  /\ hasAutoReviewed' = FALSE
  /\ autoReviews' = 0
  /\ simulationTimeouts' = 1..Len(MOCK_TRANSCRIPT)
  /\ transcript' = Transcript(FALSE, <<>>)
  /\ currentUtteranceRef' = <<>>
  /\ heard' = NoneHeard
  /\ UNCHANGED <<API_KEY, formatCall, media, app, settingsVars, isLoading, sessions, sessionRef,
                 checklist, currentSpeaker, serviceVars>>

\* The timer of mock entry i fires; timers fire in the order of their delays.
MockTimer(i) ==
  /\ Quiet
  /\ i \in simulationTimeouts /\ \A j \in simulationTimeouts : i <= j
  /\ simulationTimeouts' = simulationTimeouts \ {i}
  /\ transcript' = AppendEntry(transcript, MOCK_TRANSCRIPT[i])
  /\ UNCHANGED <<API_KEY, formatCall, media, app, settingsVars, reviewVars, currentUtteranceRef, heard, isRecording,
                 sessions, sessionRef, checklist, currentSpeaker, serviceVars>>

\* ------------------------------------------------------------------ recording
\* handleStartRecording up to its await: session s is being connected.
handleStartRecording(s) ==
  /\ Quiet /\ ~isSettingsOpen
  /\ sessions[s] = "unused"
  /\ simulationTimeouts' = {}
  /\ isRecording' = TRUE
  /\ transcript' = Transcript(FALSE, <<>>)
  /\ currentUtteranceRef' = <<>>
  /\ heard' = NoneHeard
  /\ analysisResult' = NoValue
  /\ error' = <<>>
  /\ hasAutoReviewed' = FALSE
  /\ autoReviews' = 0
  /\ sessions' = [sessions EXCEPT ![s] = "connecting"]
  /\ UNCHANGED <<API_KEY, formatCall, app, settingsVars, isLoading, sessionRef,
                 checklist, currentSpeaker, serviceVars>>

\* The await of handleStartRecording resolves with session s.
SessionConnected(s) ==
  /\ Quiet
  /\ sessions[s] = "connecting"
  /\ sessions' = [sessions EXCEPT ![s] = "open"]
  /\ sessionRef' = s
  /\ UNCHANGED <<API_KEY, formatCall, media, app, settingsVars, reviewVars, transcript, currentUtteranceRef, heard,
                 isRecording, simulationTimeouts, checklist, currentSpeaker, serviceVars>>

\* The await of handleStartRecording rejects: the catch block.
SessionFailed(s) ==
  /\ Quiet
  /\ sessions[s] = "connecting"
  /\ sessions' = [sessions EXCEPT ![s] = "closed"]
  /\ error' = <<"Could not start live transcription session.">>
  /\ isRecording' = FALSE
  /\ UNCHANGED <<API_KEY, formatCall, media, app, settingsVars, analysisResult, isLoading, hasAutoReviewed,
                 autoReviews, transcript, currentUtteranceRef, heard, simulationTimeouts,
                 sessionRef,
                 checklist, currentSpeaker, serviceVars>>

\* The utterance is finalized: an entry is added unless it is blank.
Finalized(utterance) ==
  IF Trim(utterance) # <<>> THEN AppendEntry(transcript, LiveEntry(Trim(utterance)))
  ELSE transcript

\* Finalizing the utterance keeps the transcript within the bound of the model.
CanFinalize(utterance) ==
  Trim(utterance) = <<>> \/ Len(transcript.entries) < MaxTranscript

\* With the fragments of `text` the open turn holds at most n fragments.
WithinTurn(n, text) == Len(currentUtteranceRef) + Len(text) <= n

\* Variant of onmessage: the buffer is kept when the turn ends.
onmessage_KeepsBuffer(s, text, turnComplete) ==
  /\ Quiet
  /\ sessions[s] = "open"
  /\ text # <<>> \/ turnComplete
  /\ LET utterance == currentUtteranceRef \o text
     IN /\ currentUtteranceRef' = utterance
        /\ IF turnComplete
           THEN CanFinalize(utterance) /\ transcript' = Finalized(utterance)
           ELSE UNCHANGED transcript
  /\ heard' = Hear(heard, text, turnComplete)
  /\ UNCHANGED <<API_KEY, formatCall, media, app, settingsVars, reviewVars, isRecording, simulationTimeouts,
                 sessions, sessionRef, checklist, currentSpeaker, serviceVars>>

\* onmessage of session s: a message with transcribed text (when text is not
\* <<>>), with turnComplete, or with both.
onmessage(s, text, turnComplete) ==
  /\ Quiet
  /\ sessions[s] = "open"
  /\ text # <<>> \/ turnComplete
  /\ LET utterance == currentUtteranceRef \o text
     IN IF turnComplete
        THEN /\ CanFinalize(utterance)
             /\ transcript' = Finalized(utterance)
             /\ currentUtteranceRef' = <<>>
        ELSE /\ currentUtteranceRef' = utterance
             /\ UNCHANGED transcript
  /\ heard' = Hear(heard, text, turnComplete)
  /\ UNCHANGED <<API_KEY, formatCall, media, app, settingsVars, reviewVars, isRecording, simulationTimeouts,
                 sessions, sessionRef, checklist, currentSpeaker, serviceVars>>

\* handleStopRecording, on the variables of the model.
StopRecording ==
  /\ isRecording' = FALSE
  /\ sessions' = IF sessionRef # 0 THEN [sessions EXCEPT ![sessionRef] = "closed"] ELSE sessions
  /\ sessionRef' = 0
  /\ transcript' = Finalized(currentUtteranceRef)
  /\ currentUtteranceRef' = <<>>
  /\ heard' = Hear(heard, <<>>, TRUE)

\* The Stop Recording button (shown while recording).
handleStopRecording ==
  /\ Quiet /\ ~isSettingsOpen /\ isRecording
  /\ CanFinalize(currentUtteranceRef)
  /\ StopRecording
  /\ UNCHANGED <<API_KEY, formatCall, app, settingsVars, reviewVars, simulationTimeouts,
                 checklist, currentSpeaker, serviceVars>>

\* onerror of session s: the error is shown and the recording stopped.
onerror(s) ==
  /\ Quiet
  /\ sessions[s] = "open"
  /\ CanFinalize(currentUtteranceRef)
  /\ error' = <<"An error occurred with the live transcription.">>
  /\ StopRecording
  /\ UNCHANGED <<API_KEY, formatCall, media, app, settingsVars, analysisResult, isLoading, hasAutoReviewed,
                 autoReviews, simulationTimeouts, checklist, currentSpeaker, serviceVars>>

\* The speaker button of TranscriptView (shown while recording).
handleToggleSpeaker ==
  /\ Quiet /\ ~isSettingsOpen /\ isRecording
  /\ currentSpeaker' = IF currentSpeaker = "Speaker 1" THEN "Speaker 2" ELSE "Speaker 1"
  /\ UNCHANGED <<API_KEY, formatCall, media, app, settingsVars, reviewVars, recordVars, checklist, serviceVars>>

\* ------------------------------------------------------------------ review
\* Variant of handleReview: the transcript is not checked.
handleReview_Unguarded(c) ==
  /\ isLoading' = TRUE
  /\ error' = <<>>
  /\ analysisResult' = NoValue
  /\ Invoke(c, transcript.entries, checklist, llmSettings)

\* handleReview up to its await, the analysis being call c.
handleReview(c) ==
  IF transcript.isNull \/ transcript.entries = <<>>
  THEN /\ error' = <<"A transcript must be available before analysis.">>
       /\ UNCHANGED <<isLoading, analysisResult, serviceVars>>
  ELSE /\ isLoading' = TRUE
       /\ error' = <<>>
       /\ analysisResult' = NoValue
       /\ Invoke(c, transcript.entries, checklist, llmSettings)

\* Variant of SubmitReview: the button stays enabled during an analysis.
SubmitReview_NeverDisabled ==
  /\ Quiet /\ ~isSettingsOpen
  /\ ~transcript.isNull /\ transcript.entries # <<>>
  /\ trimChecklist(checklist) # ""
  /\ \E c \in Calls : pc[c] = "idle"
  /\ handleReview(FreeCall)
  /\ UNCHANGED <<API_KEY, formatCall, media, app, settingsVars, hasAutoReviewed, autoReviews, recordVars,
                 checklist, currentSpeaker>>

\* The review button (disabled without a transcript and during an analysis):
\* AnalysisPanel.handleSubmit.
SubmitReview ==
  /\ Quiet /\ ~isSettingsOpen
  /\ ~transcript.isNull /\ transcript.entries # <<>> /\ ~isLoading
  /\ trimChecklist(checklist) # ""
  /\ \E c \in Calls : pc[c] = "idle"
  /\ handleReview(FreeCall)
  /\ UNCHANGED <<API_KEY, formatCall, media, app, settingsVars, hasAutoReviewed, autoReviews, recordVars,
                 checklist, currentSpeaker>>

\* Variant of CommandEffect: the command is not marked as handled.
CommandEffect_Unmarked ==
  /\ CommandDue /\ ~ContinuationDue /\ ~settingsEffectPending
  /\ \E c \in Calls : pc[c] = "idle"
  /\ handleReview(FreeCall)
  /\ autoReviews' = autoReviews + 1
  /\ UNCHANGED <<API_KEY, formatCall, media, app, settingsVars, hasAutoReviewed, recordVars, checklist, currentSpeaker>>

\* The command effect: an entry says 'review now'.
CommandEffect ==
  /\ CommandDue /\ ~ContinuationDue /\ ~settingsEffectPending
  /\ \E c \in Calls : pc[c] = "idle"
  /\ handleReview(FreeCall)
  /\ hasAutoReviewed' = TRUE
  /\ autoReviews' = autoReviews + 1
  /\ UNCHANGED <<API_KEY, formatCall, media, app, settingsVars, recordVars, checklist, currentSpeaker>>

\* The answers to the request of an analysis the application started: an
\* analysis result, the JSON document null, or a failure.
AppResponses ==
  { Response("http", TRUE, Body("chat", "", Bare(ScenarioDoc))),
    Response("http", TRUE, Body("ollama", "", Bare(ScenarioDoc))),
    Response("sdk", TRUE, Body("text", "", Bare(ScenarioDoc))),
    Response("http", TRUE, Body("chat", "", Bare("null"))),
    Response("http", TRUE, Body("ollama", "", Bare("null"))),
    Response("sdk", TRUE, Body("text", "", Bare("null"))),
    Response("network_error", FALSE, Body("none", "", <<>>)),
    Response("sdk_error", FALSE, Body("none", "", <<>>)) }

\* The request of call c is answered: analyzeTranscript runs to its end.
AnalysisSettles(c, resp) ==
  /\ app = "mounted"
  /\ Settle(c, resp)
  /\ UNCHANGED <<appVars, formatCall>>

\* handleReview from its await on, for the settled call c, whose record is
\* then dropped.
ReviewContinues(c) ==
  /\ app = "mounted"
  /\ pc[c] = "settled"
  /\ IF outcome[c].threw
     THEN /\ error' = outcome[c].error.message
          /\ UNCHANGED analysisResult
     ELSE /\ analysisResult' = outcome[c].value
          /\ UNCHANGED error
  /\ isLoading' = FALSE
  /\ pc' = [pc EXCEPT ![c] = "idle"]
  /\ args' = [args EXCEPT ![c] = NoArgs]
  /\ network' = [network EXCEPT ![c] = <<>>]
  /\ console' = [console EXCEPT ![c] = <<>>]
  /\ response' = [response EXCEPT ![c] = NoResponse]
  /\ outcome' = [outcome EXCEPT ![c] = Pending]
  /\ UNCHANGED <<API_KEY, formatCall, media, app, settingsVars, hasAutoReviewed, autoReviews, recordVars,
                 checklist, currentSpeaker>>

\* ------------------------------------------------------------------ the application
FormatCall(t, output, done) == [transcript |-> t, output |-> output, done |-> done]

FormatNotCalled == formatCall = FormatCall(<<>>, <<>>, FALSE)

\* One page load with the settings as they were stored: demo, recording and
\* review, the settings panel left closed.
AppNext ==
  \/ LoadApp
  \/ PersistSettings
  \/ \E value \in AppChecklists : onChecklistChange(value)
  \/ handleRunDemo
  \/ \E i \in 1..Len(MOCK_TRANSCRIPT) : MockTimer(i)
  \/ \E s \in Sessions : handleStartRecording(s) /\ UNCHANGED media
  \/ \E s \in Sessions : SessionConnected(s)
  \/ \E s \in Sessions : SessionFailed(s)
  \/ \E s \in Sessions, text \in {<<>>} \cup {<<f>> : f \in Fragments}, turnComplete \in BOOLEAN :
       WithinTurn(MaxFragments, text) /\ onmessage(s, text, turnComplete)
  \/ handleStopRecording /\ UNCHANGED media
  \/ \E s \in Sessions : onerror(s)
  \/ handleToggleSpeaker
  \/ SubmitReview
  \/ CommandEffect
  \/ \E c \in Calls, resp \in AppResponses : AnalysisSettles(c, resp)
  \/ \E c \in Calls : ReviewContinues(c)

AppSpecInit == ServiceInit /\ AppInit /\ FormatNotCalled

AppSpec == AppSpecInit /\ [][AppNext]_vars

\* handleReview called while no transcript is loaded. The review button is
\* disabled then and the command effect needs an entry, so this is a call that
\* reaches the function past the controls of the page.
ReviewWithoutTranscript ==
  /\ Quiet
  /\ transcript.isNull \/ transcript.entries = <<>>
  /\ \E c \in Calls : pc[c] = "idle"
  /\ handleReview(FreeCall)
  /\ UNCHANGED <<API_KEY, formatCall, media, app, settingsVars, hasAutoReviewed, autoReviews, recordVars,
                 checklist, currentSpeaker>>

\* The application, and handleReview called without a transcript.
ReviewNext ==
  \/ AppNext
  \/ ReviewWithoutTranscript

ReviewSpec == AppSpecInit /\ [][ReviewNext]_vars

\* Recording alone, with a key and nothing stored, the demo and the review
\* button left alone: turns of several fragments, and the command effect.
RecordingNext ==
  \/ LoadApp
  \/ PersistSettings
  \/ \E s \in Sessions : handleStartRecording(s) /\ UNCHANGED media
  \/ \E s \in Sessions : SessionConnected(s)
  \/ \E s \in Sessions : SessionFailed(s)
  \/ \E s \in Sessions, text \in {<<>>} \cup {<<f>> : f \in Fragments}, turnComplete \in BOOLEAN :
       WithinTurn(MaxTurnFragments, text) /\ onmessage(s, text, turnComplete)
  \/ handleStopRecording /\ UNCHANGED media
  \/ \E s \in Sessions : onerror(s)
  \/ CommandEffect
  \/ \E c \in Calls, resp \in AppResponses : AnalysisSettles(c, resp)
  \/ \E c \in Calls : ReviewContinues(c)

RecordingInit == ServiceInit /\ AppNotLoaded /\ FormatNotCalled

RecordingSpec == RecordingInit /\ [][RecordingNext]_vars

\* ------------------------------------------------------------------ capture
\* The Capture Meeting Audio button (shown while not recording):
\* handleStartRecordingClick up to its first await.
handleStartRecordingClick ==
  /\ Quiet /\ ~isSettingsOpen /\ ~isRecording
  /\ media.stage = "idle"
  /\ media' = [media EXCEPT !.stage = "mic"]
  /\ UNCHANGED <<API_KEY, formatCall, app, settingsVars, reviewVars, recordVars, checklist,
                 currentSpeaker, serviceVars>>

\* getUserMedia resolves: the microphone stream is held, getDisplayMedia asked.
MicGranted ==
  /\ Quiet
  /\ media.stage = "mic"
  /\ media' = [media EXCEPT !.stage = "display", !.mic = "live"]
  /\ UNCHANGED <<API_KEY, formatCall, app, settingsVars, reviewVars, recordVars, checklist,
                 currentSpeaker, serviceVars>>

\* getUserMedia or getDisplayMedia rejects: the catch block.
CaptureDenied ==
  /\ Quiet
  /\ media.stage \in {"mic", "display"}
  /\ media' = [stopRecordingTracks(media) EXCEPT !.stage = "idle"]
  /\ UNCHANGED <<API_KEY, formatCall, app, settingsVars, reviewVars, recordVars, checklist,
                 currentSpeaker, serviceVars>>

\* getDisplayMedia resolves, with an audio track or without one: the streams
\* are mixed in a new AudioContext and onStartRecording is called, which is
\* handleStartRecording up to its await.
DisplayGranted(s, hasAudio) ==
  /\ media.stage = "display"
  /\ media' = Media("idle", media.mic, IF hasAudio THEN "live" ELSE "none", "running")
  /\ handleStartRecording(s)

\* The Stop Recording button: handleStopRecordingClick.
handleStopRecordingClick ==
  /\ media' = stopRecordingTracks(media)
  /\ handleStopRecording

\* The user stops sharing in the browser: onended of the display audio track
\* calls onStopRecording.
onended ==
  /\ Quiet
  /\ media.display = "live"
  /\ CanFinalize(currentUtteranceRef)
  /\ media' = [media EXCEPT !.display = "ended"]
  /\ StopRecording
  /\ UNCHANGED <<API_KEY, formatCall, app, settingsVars, reviewVars, simulationTimeouts,
                 checklist, currentSpeaker, serviceVars>>

\* Capture from the button to the end of the recording, with a key and
\* nothing stored, and the command effect.
CaptureNext ==
  \/ LoadApp
  \/ PersistSettings
  \/ handleStartRecordingClick
  \/ MicGranted
  \/ CaptureDenied
  \/ \E s \in Sessions, hasAudio \in BOOLEAN : DisplayGranted(s, hasAudio)
  \/ \E s \in Sessions : SessionConnected(s)
  \/ \E s \in Sessions : SessionFailed(s)
  \/ \E s \in Sessions, text \in {<<>>} \cup {<<f>> : f \in Fragments}, turnComplete \in BOOLEAN :
       WithinTurn(MaxFragments, text) /\ onmessage(s, text, turnComplete)
  \/ handleStopRecordingClick
  \/ onended
  \/ \E s \in Sessions : onerror(s)
  \/ CommandEffect
  \/ \E c \in Calls, resp \in AppResponses : AnalysisSettles(c, resp)
  \/ \E c \in Calls : ReviewContinues(c)

CaptureSpec == RecordingInit /\ [][CaptureNext]_vars

\* The settings panel, with the operations that run around it: review, demo,
\* starting and stopping a recording, the speaker button.
SettingsNext ==
  \/ LoadApp
  \/ PersistSettings
  \/ OpenSettings
  \/ \E provider \in EditProviders : handleProviderChange(provider)
  \/ \E name \in SettingsFields : \E value \in EditValues(name) : handleInputChange(name, value)
  \/ SaveSettings
  \/ CancelSettings
  \/ handleRunDemo
  \/ \E i \in 1..Len(MOCK_TRANSCRIPT) : MockTimer(i)
  \/ \E s \in Sessions : handleStartRecording(s) /\ UNCHANGED media
  \/ \E s \in Sessions : SessionConnected(s)
  \/ handleStopRecording /\ UNCHANGED media
  \/ handleToggleSpeaker
  \/ SubmitReview
  \/ CommandEffect
  \/ \E c \in Calls, resp \in AppResponses : AnalysisSettles(c, resp)
  \/ \E c \in Calls : ReviewContinues(c)

SettingsSpec == AppSpecInit /\ [][SettingsNext]_vars

\* ------------------------------------------------------------------ formatTranscript alone
\* Lines a transcript handed to formatTranscript may have.
MaxLines == 3

FormatEntries ==
  { Entries[1], Entries[2],
    [timestamp |-> "00:05.300", speaker |-> "Speaker 1", text |-> ""],
    [timestamp |-> "00:02.150", speaker |-> "Speaker 2", text |-> "Let's discuss scalability."] }

FormatInputs == UNION { [1..n -> FormatEntries] : n \in 0..MaxLines }

FormatInit == \E t \in FormatInputs : formatCall = FormatCall(t, <<>>, FALSE)

\* formatTranscript is applied to the transcript.
FormatTranscript ==
  /\ ~formatCall.done
  /\ formatCall' = FormatCall(formatCall.transcript, formatTranscript(formatCall.transcript), TRUE)
  /\ UNCHANGED <<serviceVars, appVars>>

FormatNext == FormatTranscript

FormatSpecInit == ServiceInit /\ AppNotLoaded /\ FormatInit

FormatSpec == FormatSpecInit /\ [][FormatNext]_vars

\* ------------------------------------------------------------------ the service alone
\* analyzeTranscript called by any caller, with the application left out.
Init == ServiceInit /\ AppNotLoaded /\ FormatNotCalled

Next ==
  \/ \E c \in Calls, t \in Transcripts, cl \in Checklists, settings \in Settings :
       Invoke(c, t, cl, settings) /\ UNCHANGED <<appVars, formatCall>>
  \/ \E c \in Calls, resp \in AllResponses :
       Settle(c, resp) /\ UNCHANGED <<appVars, formatCall>>

Spec == Init /\ [][Next]_vars

\* ------------------------------------------------------------------ claims
Invoked(c)  == pc[c] # "idle"
Settled(c)  == pc[c] = "settled"
Failed(c)   == Settled(c) /\ outcome[c].threw
Returned(c) == Settled(c) /\ ~outcome[c].threw

ProviderOf(c) == args[c].settings.provider

\* A value with the three fields of AnalysisResult, each of its type.
IsAnalysisResult(v) ==
  /\ v.top = "object"
  /\ v.summary.t = "string"
  /\ v.actionItems.t = "array"
  /\ v.missingPoints.t = "array"

\* The settings the selected provider requires are all non-blank.
RequiredSettingsPresent(settings) ==
  /\ settings.provider = "openai"   => settings.openAiApiKey # ""
  /\ settings.provider = "ollama"   => (settings.ollamaUrl # "" /\ settings.ollamaModel # "")
  /\ settings.provider = "lmstudio" => settings.lmStudioUrl # ""

\* a occurs in b as a contiguous run of tokens.
Infix(a, b) == \E i \in 0..(Len(b) - Len(a)) : SubSeq(b, i + 1, i + Len(a)) = a

\* The uniform message of the dispatcher's outer error for a provider.
FailedToGetAnalysis(provider) ==
  <<"Failed to get analysis from ", provider,
    ". Please check your settings and the console for details.">>

EmptyInput(c) == args[c].transcript = <<>> \/ args[c].checklist = ""

\* C1: a call with an empty transcript, or with an empty checklist, fails and
\* issues no network request, whatever settings.provider is.
C1_EmptyInputRejected ==
  \A c \in Calls :
    (Invoked(c) /\ EmptyInput(c)) => (Failed(c) /\ network[c] = <<>>)

\* C2: every value analyzeTranscript returns has summary (string), actionItems
\* (sequence) and missingPoints (sequence); a parsed response lacking one of
\* them, or holding one of the wrong type, makes the call fail instead.
C2_ReturnedValueIsAnalysisResult ==
  \A c \in Calls : Returned(c) => IsAnalysisResult(outcome[c].value)

\* C3 (as claimed): when an adapter fails, the error surfaced to the caller
\* carries the message of the underlying failure.
C3_CausePreservedInSurfacedError ==
  \A c \in Calls :
    (Failed(c) /\ ProviderOf(c) \in ModelProvider) =>
      \E i \in 1..Len(console[c]) : Infix(console[c][i].message, outcome[c].error.message)

\* The message of the backend's error body for a non-success response to the
\* openai or lmstudio adapter, when the body carries one.
BackendMessage(c) ==
  IF /\ ProviderOf(c) \in {"openai", "lmstudio"}
     /\ response[c].kind = "http" /\ ~response[c].ok
     /\ response[c].body.shape = "error" /\ response[c].body.message # ""
  THEN <<response[c].body.message>>
  ELSE <<>>

\* C3 (amended): when an adapter fails, the underlying failure is written to
\* the console (for openai and lmstudio with the backend's error.message
\* verbatim), and the error surfaced to the caller is the fixed message that
\* names the provider; so two calls failing with the same provider surface
\* the same error, whatever their causes.
C3_CauseLoggedNotSurfaced ==
  /\ \A c \in Calls :
       (Failed(c) /\ ProviderOf(c) \in ModelProvider) =>
         /\ Len(console[c]) = 1
         /\ console[c][1] # outcome[c].error
         /\ Infix(BackendMessage(c), console[c][1].message)
         /\ ~Infix(console[c][1].message, outcome[c].error.message)
         /\ outcome[c].error.message = FailedToGetAnalysis(ProviderOf(c))
  /\ \A c1, c2 \in Calls :
       (Failed(c1) /\ Failed(c2) /\ ProviderOf(c1) = ProviderOf(c2)) =>
         outcome[c1].error = outcome[c2].error

\* Two calls to openai failing with different backend messages.
C3_Witness ==
  /\ Failed(1) /\ Failed(2)
  /\ ProviderOf(1) = "openai" /\ ProviderOf(2) = "openai"
  /\ BackendMessage(1) = <<"Incorrect API key provided">>
  /\ BackendMessage(2) = <<"Rate limit reached">>
  /\ console[1] # console[2]

\* C4 (as claimed): an unknown provider makes the call fail with the
\* unsupported-provider error and no network request.
C4_UnsupportedProviderErrorSurfaced ==
  \A c \in Calls :
    (Invoked(c) /\ ProviderOf(c) \notin ModelProvider) =>
      /\ Failed(c)
      /\ network[c] = <<>>
      /\ outcome[c].error.message = <<"Unsupported model provider: ", ProviderOf(c)>>

\* C4 (amended): an unknown provider makes the call fail with no network
\* request; the unsupported-provider error is written to the console, and the
\* caller gets the same outer error as for a failing adapter, with the
\* provider value in it.
C4_UnsupportedProviderFailsUniformly ==
  \A c \in Calls :
    (Invoked(c) /\ ProviderOf(c) \notin ModelProvider) =>
      /\ Failed(c)
      /\ network[c] = <<>>
      /\ console[c] = <<Error("Error", <<"Unsupported model provider: ", ProviderOf(c)>>)>>
      /\ outcome[c].error = Error("Error", FailedToGetAnalysis(ProviderOf(c)))

\* An unknown provider next to a known provider whose adapter failed.
C4_Witness ==
  /\ Failed(1) /\ ProviderOf(1) = "carrier-pigeon"
  /\ Failed(2) /\ ProviderOf(2) = "ollama" /\ network[2] # <<>>
  /\ outcome[1].error.message[1] = outcome[2].error.message[1]

ConfigurationMessages ==
  [ openai   |-> <<"OpenAI API Key is not configured.">>,
    ollama   |-> <<"Ollama URL or model name is not configured.">>,
    lmstudio |-> <<"LM Studio URL is not configured.">> ]

\* C5: openai with an empty key, ollama with an empty URL or an empty model and
\* lmstudio with an empty URL fail with the adapter's configuration error
\* while no HTTP request is issued.
C5_ConfigurationCheckedBeforeRequest ==
  \A c \in Calls :
    (Invoked(c) /\ ProviderOf(c) \in {"openai", "ollama", "lmstudio"}
                /\ ~RequiredSettingsPresent(args[c].settings)) =>
      /\ Failed(c)
      /\ network[c] = <<>>
      /\ console[c] = <<Error("Error", ConfigurationMessages[ProviderOf(c)])>>

\* ollama without a model name next to openai without a key.
C5_Witness ==
  /\ Failed(1) /\ ProviderOf(1) = "ollama"
  /\ args[1].settings.ollamaUrl # "" /\ args[1].settings.ollamaModel = ""
  /\ Failed(2) /\ ProviderOf(2) = "openai" /\ args[2].settings.openAiApiKey = ""
  /\ network[1] = <<>> /\ network[2] = <<>>

\* The endpoint of the provider the settings select.
EndpointOf(settings) ==
  CASE settings.provider = "gemini"   -> <<"ai.models.generateContent">>
    [] settings.provider = "openai"   -> <<"https://api.openai.com/v1/chat/completions">>
    [] settings.provider = "ollama"   -> <<settings.ollamaUrl, "/api/chat">>
    [] settings.provider = "lmstudio" -> <<settings.lmStudioUrl, "/v1/chat/completions">>
    [] OTHER                          -> <<>>

\* C6: every request of a call goes to the endpoint of the call's own provider;
\* with provider ollama and its settings present the call issues exactly one
\* POST to {ollamaUrl}/api/chat whose body has format "json".
C6_OnlyOwnEndpoint ==
  \A c \in Calls :
    /\ \A i \in 1..Len(network[c]) : network[c][i].url = EndpointOf(args[c].settings)
    /\ (Invoked(c) /\ ProviderOf(c) = "ollama" /\ RequiredSettingsPresent(args[c].settings)) =>
         /\ Len(network[c]) = 1
         /\ network[c][1].method = "POST"
         /\ network[c][1].url = <<args[c].settings.ollamaUrl, "/api/chat">>
         /\ network[c][1].body.format = "json"

\* An ollama call and an lmstudio call, both answered.
C6_Witness ==
  /\ Settled(1) /\ ProviderOf(1) = "ollama" /\ Len(network[1]) = 1
  /\ Settled(2) /\ ProviderOf(2) = "lmstudio" /\ Len(network[2]) = 1

\* C7: a call issues at most one request whatever its outcome, exactly one
\* when the provider is known and its required settings are present, and two
\* calls with the same arguments each issue their own request.
C7_SingleAttempt ==
  /\ \A c \in Calls : Len(network[c]) <= 1
  /\ \A c \in Calls :
       (Invoked(c) /\ ProviderOf(c) \in ModelProvider
                   /\ RequiredSettingsPresent(args[c].settings)) =>
         Len(network[c]) = 1
  /\ \A c1, c2 \in Calls :
       (c1 # c2 /\ Invoked(c1) /\ Invoked(c2) /\ args[c1] = args[c2]) =>
         Len(network[c1]) = Len(network[c2])

\* Two calls with the same arguments, both answered with a failure.
C7_Witness ==
  /\ Failed(1) /\ Failed(2)
  /\ args[1] = args[2]
  /\ args[1].transcript # <<>> /\ args[1].checklist # ""
  /\ response[1].kind = "http" /\ ~response[1].ok
  /\ response[2].kind = "network_error"
  /\ Len(network[1]) = 1 /\ Len(network[2]) = 1

\* The call got a success response that carries content in the shape of its
\* provider's API.
HasContent(c) ==
  /\ Settled(c)
  /\ \/ ProviderOf(c) = "gemini" /\ response[c].kind = "sdk"
     \/ /\ ProviderOf(c) \in {"openai", "lmstudio"}
        /\ response[c].kind = "http" /\ response[c].ok /\ response[c].body.shape = "chat"
     \/ /\ ProviderOf(c) = "ollama"
        /\ response[c].kind = "http" /\ response[c].ok /\ response[c].body.shape = "ollama"

\* Call c1 was answered with a result document in a json fence and call c2,
\* to the same provider, with the same document bare.
FencedAndBare(c1, c2) ==
  /\ HasContent(c1) /\ HasContent(c2)
  /\ ProviderOf(c1) = ProviderOf(c2)
  /\ \E d \in ResultDocs :
       /\ response[c1].body.content = FencedJson(d)
       /\ response[c2].body.content = Bare(d)

\* C8 (as claimed): for any provider, a result document wrapped in a json fence
\* yields the same outcome as the bare document.
C8_FenceInsensitiveAnyProvider ==
  \A c1, c2 \in Calls : FencedAndBare(c1, c2) => outcome[c1] = outcome[c2]

\* C8 (amended): for the lmstudio provider, a result document wrapped in a
\* json fence yields the same AnalysisResult as the bare document.
C8_FenceInsensitiveLmStudio ==
  \A c1, c2 \in Calls :
    (FencedAndBare(c1, c2) /\ ProviderOf(c1) = "lmstudio") =>
      /\ Returned(c1) /\ Returned(c2)
      /\ outcome[c1].value = outcome[c2].value

C8_Witness ==
  /\ FencedAndBare(1, 2) /\ ProviderOf(1) = "lmstudio"
  /\ Returned(1) /\ outcome[1].value.actionItems.a = <<"a1", "a2">>

\* C9: every failure reaches the caller as the one outer error, whose message
\* names the provider of the call; no error of an adapter is passed on as it is.
C9_UniformOuterError ==
  \A c \in Calls :
    /\ Failed(c) =>
         /\ outcome[c].error.name = "Error"
         /\ outcome[c].error.message = FailedToGetAnalysis(ProviderOf(c))
         /\ \A i \in 1..Len(console[c]) : outcome[c].error # console[c][i]
    /\ (Settled(c) /\ console[c] # <<>>) => Failed(c)

\* A rejected SDK call next to an unparseable ollama answer.
C9_Witness ==
  /\ Failed(1) /\ ProviderOf(1) = "gemini" /\ response[1].kind = "sdk_error"
  /\ Failed(2) /\ ProviderOf(2) = "ollama" /\ console[2][1].name = "SyntaxError"

\* C10: for openai, ollama and lmstudio a response with a non-success status
\* makes the call fail, whatever its body holds.
C10_NonSuccessStatusFails ==
  \A c \in Calls :
    (Settled(c) /\ ProviderOf(c) \in {"openai", "ollama", "lmstudio"}
                /\ response[c].kind = "http" /\ ~response[c].ok) =>
      /\ Failed(c)
      /\ outcome[c].value = NoValue

\* A non-success response whose body holds a complete result in the shape of
\* the provider's API, next to one whose body is not JSON.
C10_Witness ==
  /\ Settled(1) /\ ProviderOf(1) = "ollama"
  /\ response[1] = Response("http", FALSE, Body("ollama", "", Bare(ScenarioDoc)))
  /\ Settled(2) /\ ProviderOf(2) = "lmstudio"
  /\ response[2] = Response("http", FALSE, Body("notjson", "", <<>>))

\* C11: with provider ollama, non-empty ollamaUrl, ollamaModel, transcript and
\* checklist, a success response whose message.content is the JSON of a result
\* makes the call return the object that JSON encodes: the same summary, and
\* the same actionItems and missingPoints in the same order.
C11_OllamaReturnsEncodedObject ==
  \A c \in Calls :
    (/\ HasContent(c) /\ ProviderOf(c) = "ollama"
     /\ args[c].transcript # <<>> /\ args[c].checklist # "") =>
      /\ response[c].body.content = Bare("{summary:Discussed scalability,actionItems:[],missingPoints:[]}") =>
           /\ Returned(c)
           /\ outcome[c].value = JObject(JStr("Discussed scalability"), JArr(<<>>), JArr(<<>>))
      /\ response[c].body.content = Bare("{summary:Deploy plan,actionItems:[a1,a2],missingPoints:[m1]}") =>
           /\ Returned(c)
           /\ outcome[c].value = JObject(JStr("Deploy plan"), JArr(<<"a1", "a2">>), JArr(<<"m1">>))

\* An ollama call that returned the result with two action items.
C11_Witness ==
  /\ HasContent(1) /\ ProviderOf(1) = "ollama"
  /\ args[1].transcript # <<>> /\ args[1].checklist # ""
  /\ response[1].body.content = Bare("{summary:Deploy plan,actionItems:[a1,a2],missingPoints:[m1]}")
  /\ Returned(1) /\ outcome[1].value.actionItems.a = <<"a1", "a2">>

\* The result document a success response carries, when it carries one.
CarriedResult(c) ==
  IF HasContent(c) /\ \E d \in ResultDocs : response[c].body.content = Bare(d)
  THEN {JsonDocs[d] : d \in {e \in ResultDocs : response[c].body.content = Bare(e)}}
  ELSE {}

\* The openings of the messages only the adapter of a provider writes.
AdapterMessages(provider) ==
  CASE provider = "gemini"   -> {}
    [] provider = "openai"   -> {"OpenAI API Key is not configured.", "OpenAI API error: "}
    [] provider = "ollama"   -> {"Ollama URL or model name is not configured.", "Ollama API error: "}
    [] provider = "lmstudio" -> {"LM Studio URL is not configured.", "LM Studio API error: "}
    [] OTHER                 -> {"Unsupported model provider: "}

\* C15: concurrent calls are independent: each call contacts only the
\* endpoint of its own settings, each returned result is the one its own
\* response carries, and each error names the call's own provider, whatever
\* the other call was given or answered with.
C15_ConcurrentCallsIndependent ==
  \A c \in Calls :
    /\ \A i \in 1..Len(network[c]) : network[c][i].url = EndpointOf(args[c].settings)
    /\ (Returned(c) /\ CarriedResult(c) # {}) => outcome[c].value \in CarriedResult(c)
    /\ (HasContent(c) /\ CarriedResult(c) # {}) => Returned(c)
    /\ Failed(c) => outcome[c].error.message[2] = ProviderOf(c)
    /\ \A i \in 1..Len(console[c]) :
         console[c][i].message[1] \in UNION {AdapterMessages(p) : p \in Providers} =>
           console[c][i].message[1] \in AdapterMessages(ProviderOf(c))

\* Two calls in flight together, to different providers, the second answered
\* first: the first failed, the second returned its own result.
C15_Witness ==
  /\ ProviderOf(1) = "openai" /\ ProviderOf(2) = "ollama"
  /\ Len(network[1]) = 1 /\ Len(network[2]) = 1
  /\ pc[1] = "awaiting"
  /\ Returned(2) /\ outcome[2].value = JsonDocs[ScenarioDoc]

\* Call c1, to lmstudio, was answered with the scenario's document in one of
\* the fence shapes and call c2, to lmstudio too, with the same document bare.
FenceShapes(d) == {FencedJson(d), FencedPlain(d), FencedLeading(d), FencedTrailing(d)}

\* C20: for the lmstudio adapter, content wrapped in a markdown fence is parsed
\* to the same result as the bare JSON, for every fence shape: json-tagged or
\* plain opening marker, with or without whitespace before the opening marker
\* or after the closing marker.
C20_EveryFenceShapeStripped ==
  \A c1, c2 \in Calls :
    (/\ HasContent(c1) /\ HasContent(c2)
     /\ ProviderOf(c1) = "lmstudio" /\ ProviderOf(c2) = "lmstudio"
     /\ response[c1].body.content \in FenceShapes(ScenarioDoc)
     /\ response[c2].body.content = Bare(ScenarioDoc)) =>
      outcome[c1] = outcome[c2]

RECURSIVE SplitLines(_)
\* The lines of a text: the runs of tokens between its newlines.
SplitLines(text) ==
  IF \A i \in 1..Len(text) : text[i] # "\n" THEN <<text>>
  ELSE LET n == CHOOSE i \in 1..Len(text) : text[i] = "\n" /\ \A j \in 1..(i - 1) : text[j] # "\n"
       IN <<SubSeq(text, 1, n - 1)>> \o SplitLines(SubSeq(text, n + 1, Len(text)))

\* C12: formatTranscript renders a sequence of N entries as one line per
\* entry, "[timestamp] speaker: text", the lines joined by newlines in input
\* order, none dropped, reordered or merged: exactly N lines, and the empty
\* text for the empty sequence.
C12_OneLinePerEntryInOrder ==
  formatCall.done =>
    LET t   == formatCall.transcript
        out == formatCall.output
    IN IF t = <<>> THEN out = <<>>
       ELSE /\ Len(SplitLines(out)) = Len(t)
            /\ \A i \in 1..Len(t) :
                 SplitLines(out)[i] = <<"[", t[i].timestamp, "] ", t[i].speaker, ": ", t[i].text>>

\* A formatted transcript of three entries, one of them twice, one without text.
C12_Witness ==
  /\ formatCall.done
  /\ Len(formatCall.transcript) = 3
  /\ formatCall.transcript[1] = formatCall.transcript[3]
  /\ formatCall.transcript[2].text = ""
  /\ Len(SplitLines(formatCall.output)) = 3

\* C13 (as claimed): with no Gemini API key in the environment the application
\* still loads, so that an analysis with the local stack can be run.
C13_LoadsWithoutApiKey ==
  (API_KEY = "" /\ app # "unloaded") => app = "mounted"

\* Calls of the application that have not run to the end of handleReview.
InFlight == {c \in Calls : pc[c] # "idle"}

C16_LoadedSettingsMergeDefaults ==
  [][ (app = "unloaded" /\ app' = "mounted") =>
        /\ DOMAIN llmSettings' = SettingsFields
        /\ \A f \in SettingsFields :
             llmSettings'[f] =
               IF localStorage.kind = "object" /\ f \in localStorage.has
               THEN localStorage.value[f]
               ELSE DEFAULT_SETTINGS[f]
        /\ localStorage.kind \in {"absent", "invalid"} => llmSettings' = DEFAULT_SETTINGS ]_vars

\* Settings just loaded from a stored object that holds two of the five fields.
C16_Witness ==
  /\ app = "mounted" /\ settingsEffectPending
  /\ localStorage.kind = "object" /\ localStorage.has = {"provider", "ollamaModel"}
  /\ llmSettings.provider = "ollama" /\ llmSettings.ollamaModel = ""
  /\ llmSettings.ollamaUrl = "http://localhost:11434"

\* C17: the active settings change only through Save of the settings panel:
\* llmSettings changes only in the step that closes the panel with the panel's
\* values, storage changes only by the effect that writes llmSettings, and
\* Cancel after edits, like review, demo, recording and the speaker button,
\* leaves both as they were.
C17_SettingsChangeOnlyBySave ==
  [][ app = "mounted" =>
        /\ llmSettings' # llmSettings =>
             (isSettingsOpen /\ ~isSettingsOpen' /\ llmSettings' = localSettings)
        /\ localStorage' # localStorage =>
             (settingsEffectPending /\ localStorage' = JSONstringify(llmSettings))
        /\ CancelSettings => UNCHANGED <<llmSettings, localStorage, settingsEffectPending>> ]_vars

\* The panel is open with edits not saved while an analysis is in flight.
C17_Witness ==
  /\ isSettingsOpen /\ localSettings # llmSettings
  /\ localStorage = JSONstringify(llmSettings)
  /\ isLoading /\ pc[1] = "awaiting"
  /\ args[1].settings = llmSettings

\* C18: within a session (from one reset by Run Demo or Start Recording to
\* the next) the command effect starts an analysis at most once.
C18_AutoReviewOncePerSession ==
  /\ autoReviews <= 1
  /\ autoReviews = 1 => hasAutoReviewed

\* The analysis the command started has failed, the command is still in the
\* transcript, and nothing is started again.
C18_Witness ==
  /\ autoReviews = 1 /\ ~isLoading /\ InFlight = {}
  /\ error # <<>> /\ Falsy(analysisResult)
  /\ \E i \in 1..Len(transcript.entries) : includesCommand(transcript.entries[i].text)

\* A step of Run Demo or Start Recording.
ResetStep == handleRunDemo \/ \E s \in Sessions : handleStartRecording(s)

\* C19: within a session the transcript is append-only: every step that is
\* not a reset leaves it unchanged or adds exactly one entry at its end, and
\* the sequence handed to analyzeTranscript is the transcript, in order.
C19_TranscriptAppendOnly ==
  [][ app = "mounted" =>
        /\ ~ResetStep =>
             \/ transcript' = transcript
             \/ /\ ~transcript'.isNull
                /\ Len(transcript'.entries) = Len(transcript.entries) + 1
                /\ SubSeq(transcript'.entries, 1, Len(transcript.entries)) = transcript.entries
        /\ \A c \in Calls :
             (pc[c] = "idle" /\ pc'[c] # "idle") =>
               (~transcript.isNull /\ args'[c].transcript = transcript.entries) ]_vars

\* An analysis was handed the transcript of one entry, which has grown since.
C19_Witness ==
  /\ pc[1] = "awaiting"
  /\ Len(args[1].transcript) = 1
  /\ Len(transcript.entries) = 2
  /\ SubSeq(transcript.entries, 1, 1) = args[1].transcript
  /\ transcript.entries[2].timestamp = "elapsed"

\* ------------------------------------------------------------------ review and sessions
\* The continuation of handleReview runs for the failed call c.
FailureCompletes(c) == pc[c] = "settled" /\ outcome[c].threw /\ pc'[c] = "idle"

\* C21: a failed analysis is reported once and not started again by the
\* application itself: the step that completes a failed request leaves the
\* error displayed and never leaves the command effect about to start another
\* analysis.
C21_FailureStartsNoAnalysis ==
  [][ \A c \in Calls : FailureCompletes(c) => (error' # <<>> /\ ~CommandDue') ]_vars

\* The continuation of handleReview runs for call c, storing its outcome.
Completes(c) == pc[c] = "settled" /\ pc'[c] = "idle"

\* a is the beginning of b.
IsPrefix(a, b) == Len(a) <= Len(b) /\ SubSeq(b, 1, Len(a)) = a

\* C22: a displayed result belongs to the current session: an outcome is
\* stored in analysisResult or error only while the transcript its request
\* analysed is still the beginning of the transcript on display, that is, no
\* Run Demo or Start Recording has replaced the transcript since.
C22_OutcomeOfCurrentSession ==
  [][ \A c \in Calls :
        Completes(c) => (~transcript.isNull /\ IsPrefix(args[c].transcript, transcript.entries)) ]_vars

\* C23: once the recording has been stopped no live session stays open:
\* whenever isRecording is false every session is closed, was never opened, or
\* is still being connected.
C23_NoOpenSessionAfterStop ==
  app = "mounted" => (~isRecording => \A s \in Sessions : sessions[s] # "open")

\* C24: the application never starts an analysis with a blank checklist: the
\* checklist of every call of analyzeTranscript has text after trimming.
C24_NoAnalysisWithBlankChecklist ==
  \A c \in Calls : pc[c] # "idle" => trimChecklist(args[c].checklist) # ""

\* C25: handleReview called while the transcript is null or empty sets the
\* error 'A transcript must be available before analysis.', calls nothing and
\* leaves isLoading and analysisResult as they were; no call of
\* analyzeTranscript is ever handed an empty transcript.
C25_NoAnalysisWithoutTranscript ==
  [][ /\ ReviewWithoutTranscript =>
           /\ error' = <<"A transcript must be available before analysis.">>
           /\ UNCHANGED <<isLoading, analysisResult, pc, args, network>>
      /\ \A c \in Calls : pc'[c] # "idle" => args'[c].transcript # <<>> ]_vars

\* handleReview has refused to analyse an empty transcript.
C25_Witness ==
  /\ ~transcript.isNull /\ transcript.entries = <<>>
  /\ error = <<"A transcript must be available before analysis.">>
  /\ ~isLoading /\ InFlight = {}

\* C26: the panel never shows an error together with an analysis result, and
\* shows neither while an analysis is loading: error and analysisResult are
\* not both non-null, and both are null while isLoading is true.
C26_ErrorAndResultExclusive ==
  app = "mounted" =>
    /\ ~(error # <<>> /\ ~Falsy(analysisResult))
    /\ isLoading => (error = <<>> /\ Falsy(analysisResult))

\* ------------------------------------------------------------------ transcription
\* The entries of the transcript that live transcription added.
LiveEntries == SelectSeq(transcript.entries, LAMBDA e : e.timestamp = "elapsed")

\* C27: transcribed text is neither lost nor duplicated: the fragments received
\* since the recording started are, in the order of their arrival, the texts
\* of the live entries, one entry for each ended turn that held more than
\* whitespace, followed by the buffer, which holds exactly the fragments of
\* the open turn (none right after a turn-complete or a stop).
C27_TextNeitherLostNorDuplicated ==
  /\ currentUtteranceRef = heard.open
  /\ Len(LiveEntries) = Len(heard.turns)
  /\ \A i \in 1..Len(heard.turns) : LiveEntries[i].text = Concat(Trim(heard.turns[i]))

\* Two turns of two fragments have ended, the first with whitespace ahead of
\* its text, and a whitespace fragment has arrived since.
C27_Witness ==
  /\ isRecording
  /\ heard.turns = << <<" ", "Hello">>, <<"Review now", "Hello">> >>
  /\ heard.open = <<" ">>
  /\ Len(transcript.entries) = 2
  /\ transcript.entries[2].text = "Review nowHello"

\* ------------------------------------------------------------------ demo playback
\* The entries of the transcript that the demo added.
MockEntries == SelectSeq(transcript.entries, LAMBDA e : e.timestamp # "elapsed")

\* C28: during demo playback the transcript is a prefix of MOCK_TRANSCRIPT in
\* script order: while timers are pending the transcript is exactly the script
\* up to the first pending entry, the timers of an earlier run being gone; no
\* mock entry appears twice or out of order, and none while a recording runs.
C28_DemoTranscriptIsScriptPrefix ==
  app = "mounted" =>
    /\ simulationTimeouts # {} =>
         /\ ~transcript.isNull
         /\ transcript.entries =
              SubSeq(MOCK_TRANSCRIPT, 1, Len(MOCK_TRANSCRIPT) - Cardinality(simulationTimeouts))
    /\ IsPrefix(MockEntries, MOCK_TRANSCRIPT)
    /\ isRecording => MockEntries = <<>>

\* ------------------------------------------------------------------ loading
\* C30: isLoading is true exactly while a call of analyzeTranscript made by
\* handleReview has not completed, and the completion of every call clears
\* isLoading and leaves exactly one of analysisResult and error set, from the
\* outcome of that call.
C30_LoadingBracketsTheCall ==
  [][ app = "mounted" =>
        /\ isLoading <=> InFlight # {}
        /\ \A c \in Calls :
             Completes(c) =>
               /\ ~isLoading'
               /\ IF outcome[c].threw
                  THEN error' = outcome[c].error.message /\ error' # <<>> /\ Falsy(analysisResult')
                  ELSE analysisResult' = outcome[c].value /\ ~Falsy(analysisResult') /\ error' = <<>> ]_vars

\* ------------------------------------------------------------------ capture
\* C29: whenever a capture has ended all acquired media is released: while
\* isRecording is false and the capture button's handler is not running, no
\* microphone or display track of AudioInput is live and its audio context is
\* not running.
C29_MediaReleasedWhenNotRecording ==
  (app = "mounted" /\ ~isRecording /\ media.stage = "idle") =>
    (media.mic # "live" /\ media.display # "live" /\ media.context # "running")

====
